---- MODULE Spec2Model ----
(***************************************************************************)
(* A model of ZomboDB's Elasticsearch synchronisation core                 *)
(* (src/src/c/elasticsearch/elasticsearch.c):                              *)
(*   - the bulk pipeline: ElasticsearchStartBulkProcess, the append        *)
(*     operations with bulk_prologue / bulk_epilogue, and                  *)
(*     ElasticsearchFinishBulkProcess, over the batch pool and the         *)
(*     concurrent transport (rest_multi_*, declared in rest/rest.h);       *)
(*   - the scripted conditional mutations as the remote store applies them;*)
(*   - the scripted updates of the ledger document zdb_aborted_xids;       *)
(*   - the scroll cursor: ElasticsearchOpenScroll,                         *)
(*     ElasticsearchGetNextItemPointer and ElasticsearchCloseScroll.       *)
(* The specifications of the module: Spec (bulk session), SpecDrain (the   *)
(* same, with the fairness the drain relies on), SpecStore (remote         *)
(* application of mutations), SpecLedger (ledger document), SpecScroll     *)
(* (scroll cursor), SpecScrollClose (the cursor read after its close),     *)
(* SpecScrollShort (the cursor over pages shorter than the page size) and  *)
(* SpecOpen (the search request ElasticsearchOpenScroll builds),           *)
(* SpecDelete (the bulk session with the deletes counted) and SpecScoring  *)
(* (the scoring registry of src/src/c/scoring/scoring.c).                  *)
(***************************************************************************)
EXTENDS Integers, Sequences, FiniteSets, TLC

VARIABLES
    \* ---- ElasticsearchBulkContext ----
    batchSize,            \* context->batchSize: the flush byte threshold
    bulkConcurrency,      \* context->bulkConcurrency
    shouldRefresh,        \* context->shouldRefresh: the refresh interval is "-1"
    pool,                 \* context->pool[i]: "buf" when the slot holds its buffer, NULL when checked out
    buff,                 \* the StringInfo of slot i: the records appended to it
    current,              \* context->current->pool_idx
    nrows, ntotal, nrequests,
    nstat,                \* nindex + nupdate + ndelete + nvacuum + nxid: the per-operation
                          \* statistics, which only the log line reads, kept as their sum
    waitForActiveShards,
    \* ---- transport (MultiRestState) and what went over the wire ----
    rest,                 \* pool indexes of the buffers whose request is in flight
    sent,                 \* the bulk requests handed to rest_multi_call, in dispatch order
    nrefresh,             \* GET _refresh calls made by ElasticsearchFinishBulkProcess
    phase,                \* "accumulating", "draining", "closed", or how the session
                          \* ended in an error: "fatal", "cancelled", "failed"
    appended              \* history: every record appended in the session, in call order

bulkVars == <<batchSize, bulkConcurrency, shouldRefresh, pool, buff, current,
              nrows, ntotal, nrequests, nstat, waitForActiveShards,
              rest, sent, nrefresh, phase, appended>>

VARIABLES
    \* ---- the remote store: one document id of the index ----
    doc,                  \* the stored document: [here, xmin, xmax]
    doc0,                 \* history: the document before any request was applied
    reqs,                 \* the mutations still to apply, each in a bulk request of its own
    reqs0,                \* history: the mutations that were dispatched
    applied               \* history: what was applied, in order, with its outcome

storeVars == <<doc, doc0, reqs, reqs0, applied>>

VARIABLES
    \* ---- ElasticsearchScrollContext ----
    total,                \* context->total
    hits,                 \* context->hits: [null, elems], the current page or NULL
    nhits,                \* context->nhits
    currpos,              \* context->currpos
    cnt,                  \* context->cnt
    scrollId,             \* context->scrollId
    limit,                \* context->limit: the caller's limit, 0 for none
    \* ---- the server side of the scroll, and what the caller saw ----
    srvSize,              \* the size= of the search request
    srvNext,              \* position, in sort order, of the first hit not yet served
    srvToken,             \* the continuation token of the last response
    returned,             \* history: the hits handed to the caller, in call order
    fetchAt,              \* history: the value of cnt at each continuation fetch
    tokens,               \* history: the scroll_id sent by each continuation fetch
    calls,                \* calls of ElasticsearchGetNextItemPointer
    serror,               \* "none", or the ereport(ERROR) that ended the cursor ("crash": the backend died)
    sclosed               \* ElasticsearchCloseScroll has freed the context

scrollVars == <<total, hits, nhits, currpos, cnt, scrollId,
                limit, srvSize, srvNext, srvToken, returned, fetchAt, tokens, calls, serror,
                sclosed>>

VARIABLES
    \* ---- the ledger document zdb_aborted_xids of the index ----
    ledger,               \* [here, xids]: whether the document exists, and its zdb_aborted_xids array
    ledger0,              \* history: the ledger before any operation
    lapplied              \* history: the ledger operations applied, in order, with their outcome

ledgerVars == <<ledger, ledger0, lapplied>>

VARIABLES
    \* ---- a call of ElasticsearchOpenScroll and the search request it builds ----
    oargs,                \* the arguments: [sortField, needSort, needScore, limit, direction]
    orequest              \* NoRequest, or the request: [track_scores, sort, size]

openVars == <<oargs, orequest>>

VARIABLES
    \* ---- ElasticsearchBulkContext, the statistic of the deletes ----
    ndelete               \* context->ndelete, counted on its own under SpecDelete; under the
                          \* other specifications it is part of nstat

statVars == <<ndelete>>

VARIABLES
    \* ---- the scoring registry (scoring.c) ----
    scoreEntries,         \* static List *scoreEntries: [heapOid, callbacks, callback_data]
    sregs,                \* history: the registrations since the last cleanup, in call order
    sscore,               \* history: the last score lookup, [heapOid, score]
    nregister             \* calls of scoring_register_callback

scoringVars == <<scoreEntries, sregs, sscore, nregister>>

vars == <<bulkVars, storeVars, scrollVars, ledgerVars, openVars, statVars, scoringVars>>

NULL == "NULL"

\* ------------------------------------------------------------------ bounds
\* append calls per bulk session
MaxAppends == 4
\* transaction ids 1..MaxXid
MaxXid == 3
\* hits of a search
MaxTotal == 7
\* the caller's limit, 0 for none
MaxLimit == 4
\* operations applied to the ledger document
MaxLedgerOps == 2
\* calls of scoring_register_callback
MaxRegister == 3

\* an ES limit introduced around Elasticsearch v5: 10000 in the source, scaled
\* down so that a session of MaxAppends rows reaches it
MAX_DOCS_PER_REQUEST == 3

\* index options a session is started with
BatchSizes == {0, 2, 4}
Concurrencies == {1, 2}

\* bytes of one mutation record
RecLens == {1, 2}

\* ------------------------------------------------------------------ helpers
RECURSIVE SumLen(_)
SumLen(s) == IF s = <<>> THEN 0 ELSE Head(s).len + SumLen(Tail(s))

RECURSIVE SumRows(_)
SumRows(s) == IF s = <<>> THEN 0 ELSE (IF Head(s).row THEN 1 ELSE 0) + SumRows(Tail(s))

MinOf(S) == CHOOSE x \in S : \A y \in S : x <= y

\* ------------------------------------------------------------------ batch pool
\* the slots ElasticsearchStartBulkProcess fills: i < bulkConcurrency + 1
PoolSlotsShort(c) == 0..(c - 1)

PoolSlots(c) == 0..c

\* checkout_batch_pool: the first slot that is not NULL, or elog(ERROR)
checkout_no_error(p, nhandles) ==
    LET free == {i \in 0..nhandles : i \in DOMAIN p /\ p[i] # NULL}
        i    == IF free = {} THEN 0 ELSE MinOf(free)
    IN  [error |-> FALSE, pool_idx |-> i, pool |-> [p EXCEPT ![i] = NULL]]

\* a checkout that hands out the first slot without the test pool[i] != NULL
checkout_first_slot(p, nhandles) ==
    [error |-> FALSE, pool_idx |-> 0, pool |-> [p EXCEPT ![0] = NULL]]

checkout_batch_pool(p, nhandles) ==
    LET free == {i \in 0..nhandles : i \in DOMAIN p /\ p[i] # NULL}
    IN  IF free = {}
        THEN [error |-> TRUE, pool_idx |-> -1, pool |-> p]
        ELSE [error |-> FALSE, pool_idx |-> MinOf(free),
              pool |-> [p EXCEPT ![MinOf(free)] = NULL]]

\* ------------------------------------------------------------------ transport
\* rest_multi_partial_cleanup: every completed request is reclaimed; its buffer
\* is reset and put back into its pool slot
Reclaim(p, b, r, which) ==
    [pool |-> [i \in DOMAIN p |-> IF i \in which THEN "buf" ELSE p[i]],
     buff |-> [i \in DOMAIN b |-> IF i \in which THEN <<>> ELSE b[i]],
     rest |-> r \ which]

\* rest->available
Available(r, nhandles) == nhandles - Cardinality(r)

\* rest_multi_call waits for a free handle: W is the set of requests that
\* complete, and are reclaimed, while it waits
WaitSet(r, nhandles, W) ==
    IF Available(r, nhandles) > 0 THEN W = {}
    ELSE W # {} /\ W \subseteq r

\* ------------------------------------------------------------------ bulk_prologue
\* the flush predicate of bulk_prologue
FlushEveryAppend(len, rows, is_final) == TRUE

FlushAboveThreshold(len, rows, is_final) ==
    len > batchSize \/ rows = MAX_DOCS_PER_REQUEST \/ is_final

ShouldFlush(len, rows, is_final) ==
    len >= batchSize \/ rows = MAX_DOCS_PER_REQUEST \/ is_final

\* the request bulk_prologue builds for the current buffer
BulkRequestRefreshOnFinal(body, is_final, wfas) ==
    [recs    |-> body,
     final   |-> is_final,
     wait    |-> wfas,
     refresh |-> is_final /\ shouldRefresh]

\* the refresh directive on the first request, final or not
BulkRequestRefreshFirst(body, is_final, wfas) ==
    [recs    |-> body,
     final   |-> is_final,
     wait    |-> wfas,
     refresh |-> shouldRefresh /\ nrequests = 0]

BulkRequest(body, is_final, wfas) ==
    [recs    |-> body,
     final   |-> is_final,
     wait    |-> wfas,
     refresh |-> is_final /\ shouldRefresh /\ nrequests = 0]

\* bulk_prologue without the checkout of a fresh buffer: the buffer just
\* dispatched stays the current one
bulk_prologue_same_buffer(is_final, wfas, D, W) ==
    LET polled == Reclaim(pool, buff, rest, D)
        same   == [pool |-> polled.pool, buff |-> polled.buff, rest |-> polled.rest,
                   current |-> current, nrows |-> nrows, nrequests |-> nrequests,
                   sent |-> sent, error |-> FALSE]
    IN  IF ~ShouldFlush(SumLen(buff[current]), nrows, is_final)
        THEN same
        ELSE LET waited == Reclaim(polled.pool, polled.buff, polled.rest, W)
             IN  [pool |-> waited.pool, buff |-> waited.buff,
                  rest |-> waited.rest \cup {current},
                  current |-> current, nrows |-> 0, nrequests |-> nrequests + 1,
                  sent |-> Append(sent, BulkRequest(buff[current], is_final, wfas)),
                  error |-> FALSE]

\* bulk_prologue(context, is_final), entered with context->waitForActiveShards =
\* wfas.  D: the requests rest_multi_perform finds completed; W: as in WaitSet.
\* The result holds the fields of the context that it may change.
bulk_prologue(is_final, wfas, D, W) ==
    LET polled == Reclaim(pool, buff, rest, D)
        same   == [pool |-> polled.pool, buff |-> polled.buff, rest |-> polled.rest,
                   current |-> current, nrows |-> nrows, nrequests |-> nrequests,
                   sent |-> sent, error |-> FALSE]
    IN  IF ~ShouldFlush(SumLen(buff[current]), nrows, is_final)
        THEN same
        ELSE LET waited == Reclaim(polled.pool, polled.buff, polled.rest, W)
                 co     == checkout_batch_pool(waited.pool, bulkConcurrency)
                 flushed == [pool |-> waited.pool, buff |-> waited.buff,
                             rest |-> waited.rest \cup {current},
                             current |-> current, nrows |-> 0, nrequests |-> nrequests + 1,
                             sent |-> Append(sent, BulkRequest(buff[current], is_final, wfas)),
                             error |-> FALSE]
             IN  IF is_final THEN flushed
                 ELSE IF co.error THEN [flushed EXCEPT !.error = TRUE]
                 ELSE [flushed EXCEPT !.pool = co.pool, !.current = co.pool_idx]

\* the completions a call of bulk_prologue can observe
PrologueInputs(is_final, D, W) ==
    /\ D \subseteq rest
    /\ IF ShouldFlush(SumLen(buff[current]), nrows, is_final)
       THEN WaitSet(rest \ D, bulkConcurrency, W)
       ELSE W = {}

\* bulk_epilogue
bulk_epilogue(n) == n + 1

\* appendStringInfo(context->current->buff, ...): the record goes after what
\* the buffer holds
PrependRecord(b, rec) == <<rec>> \o b

AppendRecord(b, rec) == Append(b, rec)

\* an append operation that adds its record before bulk_prologue runs: a
\* flush takes the record with it
BulkAppendBeforePrologue(is_delete, n, D, W) ==
    /\ phase = "accumulating"
    /\ nstat < MaxAppends
    /\ waitForActiveShards' = (waitForActiveShards \/ is_delete)
    /\ PrologueInputs(FALSE, D, W)
    /\ LET pr  == bulk_prologue(FALSE, waitForActiveShards', D, W)
           rec == [id |-> nstat + 1, len |-> n, row |-> TRUE]
           flushed == pr.nrequests # nrequests
       IN  /\ pool' = pr.pool /\ rest' = pr.rest /\ current' = pr.current
           /\ nrequests' = pr.nrequests
           /\ IF pr.error
              THEN /\ phase' = "fatal"
                   /\ buff' = pr.buff /\ nrows' = pr.nrows /\ sent' = pr.sent
                   /\ UNCHANGED <<ntotal, nstat, appended>>
              ELSE /\ phase' = phase
                   /\ sent' = IF flushed
                              THEN [pr.sent EXCEPT ![Len(pr.sent)].recs = AppendRecord(@, rec)]
                              ELSE pr.sent
                   /\ buff' = IF flushed THEN pr.buff
                              ELSE [pr.buff EXCEPT ![pr.current] = AppendRecord(@, rec)]
                   /\ appended' = Append(appended, rec)
                   /\ nstat' = nstat + 1
                   /\ nrows' = bulk_epilogue(pr.nrows)
                   /\ ntotal' = bulk_epilogue(ntotal)
    /\ UNCHANGED <<batchSize, bulkConcurrency, shouldRefresh, nrefresh>>

\* an append operation: bulk_prologue, the record of n bytes added to the
\* current buffer, the operation's statistic, bulk_epilogue
BulkAppend(is_delete, n, D, W) ==
    /\ phase = "accumulating"
    /\ nstat < MaxAppends
    /\ waitForActiveShards' = (waitForActiveShards \/ is_delete)
    /\ PrologueInputs(FALSE, D, W)
    /\ LET pr  == bulk_prologue(FALSE, waitForActiveShards', D, W)
           rec == [id |-> nstat + 1, len |-> n, row |-> TRUE]
       IN  /\ pool' = pr.pool /\ rest' = pr.rest /\ current' = pr.current
           /\ nrequests' = pr.nrequests /\ sent' = pr.sent
           /\ IF pr.error
              THEN /\ phase' = "fatal"
                   /\ buff' = pr.buff /\ nrows' = pr.nrows
                   /\ UNCHANGED <<ntotal, nstat, appended>>
              ELSE /\ phase' = phase
                   /\ buff' = [pr.buff EXCEPT ![pr.current] = AppendRecord(@, rec)]
                   /\ appended' = Append(appended, rec)
                   /\ nstat' = nstat + 1
                   /\ nrows' = bulk_epilogue(pr.nrows)
                   /\ ntotal' = bulk_epilogue(ntotal)
    /\ UNCHANGED <<batchSize, bulkConcurrency, shouldRefresh, nrefresh>>

ElasticsearchBulkInsertRow ==
    \E n \in RecLens, D \in SUBSET rest, W \in SUBSET rest : BulkAppend(FALSE, n, D, W)

ElasticsearchBulkUpdateTuple ==
    \E n \in RecLens, D \in SUBSET rest, W \in SUBSET rest : BulkAppend(FALSE, n, D, W)

\* a vacuum-xmax that tags the session as the deletes do
VacuumXmaxSetsFlag ==
    \E n \in RecLens, D \in SUBSET rest, W \in SUBSET rest : BulkAppend(TRUE, n, D, W)

ElasticsearchBulkVacuumXmax ==
    \E n \in RecLens, D \in SUBSET rest, W \in SUBSET rest : BulkAppend(FALSE, n, D, W)

\* context->waitForActiveShards = true before bulk_prologue
ElasticsearchBulkDeleteRowByXmin ==
    \E n \in RecLens, D \in SUBSET rest, W \in SUBSET rest : BulkAppend(TRUE, n, D, W)

DeleteRowByXmaxKeepsFlag ==
    \E n \in RecLens, D \in SUBSET rest, W \in SUBSET rest : BulkAppend(FALSE, n, D, W)

ElasticsearchBulkDeleteRowByXmax ==
    \E n \in RecLens, D \in SUBSET rest, W \in SUBSET rest : BulkAppend(TRUE, n, D, W)

ElasticsearchBulkMarkTransactionInProgress ==
    \E n \in RecLens, D \in SUBSET rest, W \in SUBSET rest : BulkAppend(FALSE, n, D, W)

\* markCommitted with the bulk_epilogue the other appends end with
MarkTransactionCommittedCounted ==
    \E n \in RecLens :
        /\ phase = "accumulating"
        /\ nstat < MaxAppends
        /\ buff' = [buff EXCEPT ![current] =
                        AppendRecord(@, [id |-> nstat + 1, len |-> n, row |-> FALSE])]
        /\ appended' = Append(appended, [id |-> nstat + 1, len |-> n, row |-> FALSE])
        /\ nstat' = nstat + 1
        /\ nrows' = bulk_epilogue(nrows)
        /\ ntotal' = bulk_epilogue(ntotal)
        /\ UNCHANGED <<batchSize, bulkConcurrency, shouldRefresh, pool, current,
                       nrequests, waitForActiveShards, rest, sent, nrefresh, phase>>

\* no bulk_prologue and no bulk_epilogue: the record goes straight into the buffer
ElasticsearchBulkMarkTransactionCommitted ==
    \E n \in RecLens :
        /\ phase = "accumulating"
        /\ nstat < MaxAppends
        /\ buff' = [buff EXCEPT ![current] =
                        AppendRecord(@, [id |-> nstat + 1, len |-> n, row |-> FALSE])]
        /\ appended' = Append(appended, [id |-> nstat + 1, len |-> n, row |-> FALSE])
        /\ nstat' = nstat + 1
        /\ UNCHANGED <<batchSize, bulkConcurrency, shouldRefresh, pool, current, nrows,
                       ntotal, nrequests, waitForActiveShards, rest, sent, nrefresh, phase>>

\* ElasticsearchFinishBulkProcess up to its wait loop: the terminal flush
FinishFlushAtThreshold == SumLen(buff[current]) >= batchSize

\* a drain that runs bulk_prologue without looking at the buffer's length
FinishFlushAlways == TRUE

FinishNeedsFlush == SumLen(buff[current]) > 0

FinishFlush ==
    /\ phase = "accumulating"
    /\ phase' = "draining"
    /\ IF FinishNeedsFlush
       THEN \E D \in SUBSET rest, W \in SUBSET rest :
                /\ PrologueInputs(TRUE, D, W)
                /\ LET pr == bulk_prologue(TRUE, waitForActiveShards, D, W)
                   IN  /\ pool' = pr.pool /\ buff' = pr.buff /\ rest' = pr.rest
                       /\ current' = pr.current /\ nrows' = pr.nrows
                       /\ nrequests' = pr.nrequests /\ sent' = pr.sent
       ELSE UNCHANGED <<pool, buff, rest, current, nrows, nrequests, sent>>
    /\ UNCHANGED <<batchSize, bulkConcurrency, shouldRefresh, ntotal, nstat,
                   waitForActiveShards, nrefresh, appended>>

\* a wait loop that does not call rest_multi_is_available: nothing is reclaimed
FinishWaitNoReclaim ==
    /\ phase = "draining"
    /\ nrequests > 0
    /\ rest # {}
    /\ UNCHANGED bulkVars

\* one turn of the wait loop of ElasticsearchFinishBulkProcess in which
\* rest_multi_is_available sees the requests D complete
FinishWait ==
    /\ phase = "draining"
    /\ nrequests > 0
    /\ \E D \in SUBSET rest :
        /\ D # {}
        /\ LET cl == Reclaim(pool, buff, rest, D)
           IN  pool' = cl.pool /\ buff' = cl.buff /\ rest' = cl.rest
    /\ UNCHANGED <<batchSize, bulkConcurrency, shouldRefresh, current, nrows, ntotal,
                   nrequests, nstat, waitForActiveShards, sent, nrefresh, phase, appended>>

\* one turn of the wait loop in which CHECK_FOR_INTERRUPTS finds a pending
\* interrupt, after rest_multi_is_available reclaimed the requests D: the
\* ereport(ERROR) leaves ElasticsearchFinishBulkProcess from inside the loop
FinishInterrupt ==
    /\ phase = "draining"
    /\ nrequests > 0
    /\ rest # {}
    /\ \E D \in SUBSET rest :
        LET cl == Reclaim(pool, buff, rest, D)
        IN  pool' = cl.pool /\ buff' = cl.buff /\ rest' = cl.rest
    /\ phase' = "cancelled"
    /\ UNCHANGED <<batchSize, bulkConcurrency, shouldRefresh, current, nrows, ntotal,
                   nrequests, nstat, waitForActiveShards, sent, nrefresh, appended>>

\* a call that polls the transport (the bulk_prologue of an append or of the
\* terminal flush, or a turn of the wait loop) finds that a request in flight
\* has failed: the transport raises the error and the call ends there
TransportFailure ==
    /\ phase \in {"accumulating", "draining"}
    /\ rest # {}
    /\ phase' = "failed"
    /\ UNCHANGED <<batchSize, bulkConcurrency, shouldRefresh, pool, buff, current, nrows,
                   ntotal, nrequests, nstat, waitForActiveShards, rest, sent, nrefresh,
                   appended>>

\* ElasticsearchFinishBulkProcess once rest_multi_all_done: the final cleanup
\* and the explicit refresh
FinishCompleteRefreshAnyRequest ==
    /\ phase = "draining"
    /\ rest = {}
    /\ nrefresh' = IF shouldRefresh /\ nrequests > 0 THEN nrefresh + 1 ELSE nrefresh
    /\ phase' = "closed"
    /\ UNCHANGED <<batchSize, bulkConcurrency, shouldRefresh, pool, buff, current, nrows,
                   ntotal, nrequests, nstat, waitForActiveShards, rest, sent, appended>>

FinishComplete ==
    /\ phase = "draining"
    /\ rest = {}
    /\ nrefresh' = IF shouldRefresh /\ nrequests > 1 THEN nrefresh + 1 ELSE nrefresh
    /\ phase' = "closed"
    /\ UNCHANGED <<batchSize, bulkConcurrency, shouldRefresh, pool, buff, current, nrows,
                   ntotal, nrequests, nstat, waitForActiveShards, rest, sent, appended>>

\* ElasticsearchStartBulkProcess
StartBulk(c, b, r) ==
    LET filled == [i \in PoolSlots(c) |-> "buf"]
        co     == checkout_batch_pool(filled, c)
    IN  /\ batchSize = b
        /\ bulkConcurrency = c
        /\ shouldRefresh = r
        /\ pool = co.pool
        /\ buff = [i \in PoolSlots(c) |-> <<>>]
        /\ current = co.pool_idx
        /\ nrows = 0 /\ ntotal = 0 /\ nrequests = 0 /\ nstat = 0
        /\ waitForActiveShards = FALSE
        /\ rest = {}
        /\ sent = <<>>
        /\ nrefresh = 0
        /\ phase = "accumulating"
        /\ appended = <<>>

BulkInit == \E c \in Concurrencies, b \in BatchSizes, r \in BOOLEAN : StartBulk(c, b, r)

\* no bulk session: the context of a session that was started and never used
BulkIdle == StartBulk(1, 2, FALSE)

\* ------------------------------------------------------------------ remote store
\* The scripts of the update actions as the store runs them on one document.
\* A document is [xmin, xmax]: zdb_xmin and zdb_xmax, zdb_xmax =
\* InvalidTransactionId when the field is absent or null.  The command ids travel with the transaction ids and
\* no script compares them.
Missing == [here |-> FALSE, xmin |-> 0, xmax |-> 0]

InvalidTransactionId == 0

Xids == 1..MaxXid

Docs == [here : {TRUE}, xmin : Xids, xmax : Xids \cup {InvalidTransactionId}]

\* ElasticsearchBulkInsertRow: {"index":{"_id":...}} and the document, zdb_xmax
\* only when xmax != InvalidTransactionId
IndexDoc(d, m) ==
    [doc |-> [here |-> TRUE, xmin |-> m.xmin, xmax |-> m.xmax], outcome |-> "index"]

\* ElasticsearchBulkUpdateTuple: ctx._source.zdb_xmax=params.XMAX, no upsert
UpdateTupleIfUnset(d, m) ==
    IF d = Missing THEN [doc |-> d, outcome |-> "document_missing"]
    ELSE IF d.xmax # InvalidTransactionId THEN [doc |-> d, outcome |-> "none"]
    ELSE [doc |-> [d EXCEPT !.xmax = m.xmax], outcome |-> "update"]

UpdateTuple(d, m) ==
    IF d = Missing THEN [doc |-> d, outcome |-> "document_missing"]
    ELSE [doc |-> [d EXCEPT !.xmax = m.xmax], outcome |-> "update"]

\* ElasticsearchBulkVacuumXmax
VacuumXmaxAlways(d, m) ==
    IF d = Missing THEN [doc |-> d, outcome |-> "document_missing"]
    ELSE [doc |-> [d EXCEPT !.xmax = InvalidTransactionId], outcome |-> "update"]

VacuumXmax(d, m) ==
    IF d = Missing THEN [doc |-> d, outcome |-> "document_missing"]
    ELSE IF d.xmax # m.expected THEN [doc |-> d, outcome |-> "none"]
    ELSE [doc |-> [d EXCEPT !.xmax = InvalidTransactionId], outcome |-> "update"]

\* ElasticsearchBulkDeleteRowByXmin
DeleteRowByXminAlways(d, m) ==
    IF d = Missing THEN [doc |-> d, outcome |-> "document_missing"]
    ELSE [doc |-> Missing, outcome |-> "delete"]

DeleteRowByXmin(d, m) ==
    IF d = Missing THEN [doc |-> d, outcome |-> "document_missing"]
    ELSE IF d.xmin = m.expected THEN [doc |-> Missing, outcome |-> "delete"]
    ELSE [doc |-> d, outcome |-> "none"]

\* ElasticsearchBulkDeleteRowByXmax
DeleteRowByXmax(d, m) ==
    IF d = Missing THEN [doc |-> d, outcome |-> "document_missing"]
    ELSE IF d.xmax = m.expected THEN [doc |-> Missing, outcome |-> "delete"]
    ELSE [doc |-> d, outcome |-> "none"]

ConditionalOps == {"vacuum_xmax", "delete_xmin", "delete_xmax"}

Mutations ==
    [op : {"index"}, xmin : Xids, xmax : Xids \cup {InvalidTransactionId}]
        \cup [op : {"update"}, xmax : Xids]
        \cup [op : ConditionalOps, expected : Xids]

ApplyMutation(d, m) ==
    CASE m.op = "index"       -> IndexDoc(d, m)
      [] m.op = "update"      -> UpdateTuple(d, m)
      [] m.op = "vacuum_xmax" -> VacuumXmax(d, m)
      [] m.op = "delete_xmin" -> DeleteRowByXmin(d, m)
      [] m.op = "delete_xmax" -> DeleteRowByXmax(d, m)

\* the store applies one of the requests in flight; it takes them in any order
StoreApply ==
    \E m \in reqs :
        LET r == ApplyMutation(doc, m)
        IN  /\ doc' = r.doc
            /\ reqs' = reqs \ {m}
            /\ applied' = Append(applied, [mut |-> m, before |-> doc, after |-> r.doc,
                                           outcome |-> r.outcome])
            /\ UNCHANGED <<doc0, reqs0>>

StoreNext == StoreApply

\* up to two requests in flight at once, one mutation of the document in each
StoreInit ==
    /\ doc \in Docs \cup {Missing}
    /\ doc0 = doc
    /\ reqs \in {{}} \cup {{m} : m \in Mutations}
                     \cup {{m1, m2} : m1 \in Mutations, m2 \in Mutations}
    /\ reqs0 = reqs
    /\ applied = <<>>

StoreIdle ==
    /\ doc = Missing /\ doc0 = Missing
    /\ reqs = {} /\ reqs0 = {}
    /\ applied = <<>>

\* ------------------------------------------------------------------ scroll cursor
\* The hits of a search are numbered 1..total in the server's sort order; a page
\* is a sequence of these numbers.
RECURSIVE Range(_, _)
Range(a, b) == IF a > b THEN <<>> ELSE <<a>> \o Range(a + 1, b)

MinNat(a, b) == IF a <= b THEN a ELSE b

\* the page a server that serves full pages returns: the next size hits, fewer
\* when fewer remain
ServerPage(from, size, n) == Range(from, MinNat(from + size - 1, n))

\* get_json_object_array of hits.hits: NULL when the response holds no hit
NullHits == [null |-> TRUE, elems |-> <<>>]

HitsArray(page) == IF page = <<>> THEN NullHits ELSE [null |-> FALSE, elems |-> page]

ArrayLengthOffByOne(h) == IF h.null THEN 0 ELSE Len(h.elems) + 1

ArrayLength(h) == IF h.null THEN 0 ELSE Len(h.elems)

\* the size= parameter ElasticsearchOpenScroll sends
PageSize(lim) == IF lim = 0 THEN MAX_DOCS_PER_REQUEST ELSE lim

\* the pages a server may answer with: the next hits in sort order, any number
\* of them up to size, none included
ShortPages(from, size, n) ==
    {Range(from, from + k - 1) : k \in 0..Len(ServerPage(from, size, n))}

\* ElasticsearchOpenScroll against an index with n hits, the search answered
\* with page
OpenScrollOn(lim, n, page) ==
        /\ total = n
        /\ cnt = 0
        /\ currpos = 0
        /\ scrollId = 1
        /\ hits = IF n > 0 THEN HitsArray(page) ELSE NullHits
        /\ nhits = IF n > 0 THEN ArrayLength(HitsArray(page)) ELSE 0
        /\ limit = lim
        /\ srvSize = PageSize(lim)
        /\ srvNext = Len(page) + 1
        /\ srvToken = 1
        /\ returned = <<>>
        /\ fetchAt = <<>>
        /\ tokens = <<>>
        /\ calls = 0
        /\ serror = "none"
        /\ sclosed = FALSE

OpenScroll(lim, n) == OpenScrollOn(lim, n, ServerPage(1, PageSize(lim), n))

\* a guard that also stops the cursor at the caller's limit
ReadPastLimit(c, t) == c >= t \/ (limit > 0 /\ c >= limit)

\* the guard of ElasticsearchGetNextItemPointer: context->cnt >= context->total
ReadOnlyBeyondTotal(c, t) == c > t

ReadPastTotal(c, t) == c >= t

\* context->currpos == context->nhits
FetchOnLastHit(pos, n) == pos + 1 >= n

PageExhausted(pos, n) == pos = n

\* the hit ElasticsearchGetNextItemPointer extracts: element currpos of hits
HitAfter(h, pos) == h.elems[IF pos + 2 <= Len(h.elems) THEN pos + 2 ELSE 1]

HitAt(h, pos) == h.elems[pos + 1]

\* context->scrollId = get_json_object_string(jsonResponse, "_scroll_id")
KeepScrollId(response, stored) == stored

NewScrollId(response, stored) == response

\* the body of ElasticsearchGetNextItemPointer, run on the context's fields;
\* page is the server's answer to the continuation request, if one is sent
GetNextItemPointerOn(page) ==
    /\ serror = "none"
    /\ calls <= MaxTotal
    /\ calls' = calls + 1
    /\ IF ReadPastTotal(cnt, total)
       THEN /\ serror' = "past_total"
            /\ UNCHANGED <<total, hits, nhits, currpos, cnt, scrollId,
                           limit, srvSize, srvNext, srvToken, returned, fetchAt, tokens>>
       ELSE LET fetch == PageExhausted(currpos, nhits)
                h     == IF fetch THEN HitsArray(page) ELSE hits
                n     == IF fetch THEN ArrayLength(HitsArray(page)) ELSE nhits
                pos   == IF fetch THEN 0 ELSE currpos
            IN  /\ srvNext' = IF fetch THEN srvNext + Len(page) ELSE srvNext
                /\ srvToken' = IF fetch THEN srvToken + 1 ELSE srvToken
                /\ scrollId' = IF fetch THEN NewScrollId(srvToken + 1, scrollId) ELSE scrollId
                /\ fetchAt' = IF fetch THEN Append(fetchAt, cnt) ELSE fetchAt
                /\ tokens' = IF fetch THEN Append(tokens, scrollId) ELSE tokens
                /\ hits' = h
                /\ nhits' = n
                /\ IF h.null
                   THEN /\ serror' = "no_results"
                        /\ currpos' = pos
                        /\ UNCHANGED <<cnt, returned>>
                   ELSE /\ serror' = serror
                        /\ returned' = Append(returned, HitAt(h, pos))
                        /\ currpos' = pos + 1
                        /\ cnt' = cnt + 1
                /\ UNCHANGED <<total, limit, srvSize>>

\* against a server that serves full pages
GetNextItemPointer == GetNextItemPointerOn(ServerPage(srvNext, srvSize, total))

\* ElasticsearchGetNextItemPointer on a context that has not been closed
ElasticsearchGetNextItemPointer ==
    /\ ~sclosed
    /\ GetNextItemPointer
    /\ UNCHANGED sclosed

\* the same against a server that may answer with a short or an empty page
GetNextItemPointerShortPage ==
    /\ ~sclosed
    /\ \E page \in ShortPages(srvNext, srvSize, total) : GetNextItemPointerOn(page)
    /\ UNCHANGED sclosed

\* ElasticsearchCloseScroll: MemoryContextDelete and pfree(scrollContext).
\* Nothing is recorded in the context, which is gone; the scroll stays open
\* on the server.
ElasticsearchCloseScroll ==
    /\ ~sclosed
    /\ serror = "none"
    /\ sclosed' = TRUE
    /\ UNCHANGED <<total, hits, nhits, currpos, cnt, scrollId,
                   limit, srvSize, srvNext, srvToken, returned, fetchAt, tokens, calls, serror>>

\* the ways a read of the freed context can come out
FreedOutcomes == {"stale", "past_total", "crash"}

\* ElasticsearchGetNextItemPointer on a closed context.  The function reads the
\* freed ElasticsearchScrollContext: with the freed memory still as it was
\* ("stale") it runs as on an open cursor; with the memory wiped cnt and total
\* read as the same value and the first test raises the error; a read through
\* a freed pointer can also end the backend.
NextAfterCloseScroll ==
    /\ sclosed
    /\ serror = "none"
    /\ UNCHANGED sclosed
    /\ \E o \in FreedOutcomes :
        IF o = "stale" THEN GetNextItemPointer
        ELSE /\ calls <= MaxTotal
             /\ calls' = calls + 1
             /\ serror' = o
             /\ UNCHANGED <<total, hits, nhits, currpos, cnt, scrollId,
                            limit, srvSize, srvNext, srvToken, returned, fetchAt, tokens>>

\* the cursor used as its interface asks: next, and close as the last call
ScrollNext ==
    \/ ElasticsearchGetNextItemPointer
    \/ ElasticsearchCloseScroll

\* the cursor against a server that may answer with short pages
ScrollShortNext ==
    \/ GetNextItemPointerShortPage
    \/ ElasticsearchCloseScroll

ScrollShortInit ==
    \E lim \in 0..MaxLimit, n \in 0..MaxTotal :
        \E page \in ShortPages(1, PageSize(lim), n) : OpenScrollOn(lim, n, page)

\* the cursor with calls of next after close
ScrollCloseNext ==
    \/ ElasticsearchGetNextItemPointer
    \/ ElasticsearchCloseScroll
    \/ NextAfterCloseScroll

ScrollInit == \E lim \in 0..MaxLimit, n \in 0..MaxTotal : OpenScroll(lim, n)

ScrollIdle == OpenScroll(0, 0)

\* ------------------------------------------------------------------ ledger document
\* The scripted updates of the document zdb_aborted_xids, as the store runs
\* them.  The field zdb_aborted_xids is a list: add appends, indexOf gives the
\* 0-based position of the first equal element or -1, remove takes a position
\* and throws when it is not one of the list, removeAll drops every element
\* that the argument holds.  The store runs one update at a time
\* (_retry_on_conflict=128).
LedgerMissing == [here |-> FALSE, xids |-> <<>>]

\* the ledgers a session may find
LedgerLens == 0..2

Ledgers ==
    {LedgerMissing} \cup
    {[here |-> TRUE, xids |-> q] : q \in UNION {[1..n -> Xids] : n \in LedgerLens}}

\* the lists ElasticsearchRemoveAbortedTransactions is called with
XidLists == UNION {[1..n -> Xids] : n \in 0..2}

SeqElems(q) == {q[i] : i \in 1..Len(q)}

\* List.indexOf
IndexOf(q, x) ==
    IF x \in SeqElems(q) THEN MinOf({i \in 1..Len(q) : q[i] = x}) - 1 ELSE -1

\* List.remove(int)
RemoveAt(q, i) == [k \in 1..(Len(q) - 1) |-> IF k <= i THEN q[k] ELSE q[k + 1]]

\* ElasticsearchBulkMarkTransactionInProgress: the upsert document when the
\* ledger does not exist, zdb_aborted_xids.add(params.XID) when it does
MarkTransactionInProgress(l, x) ==
    IF ~l.here THEN [ledger |-> [here |-> TRUE, xids |-> <<x>>], outcome |-> "created"]
    ELSE [ledger |-> [l EXCEPT !.xids = Append(@, x)], outcome |-> "updated"]

\* ElasticsearchBulkMarkTransactionCommitted and
\* ElasticsearchCommitCurrentTransaction, which send the same script, without
\* an upsert: zdb_aborted_xids.remove(zdb_aborted_xids.indexOf(params.XID))
MarkTransactionCommitted(l, x) ==
    IF ~l.here THEN [ledger |-> l, outcome |-> "document_missing"]
    ELSE IF IndexOf(l.xids, x) < 0 \/ IndexOf(l.xids, x) >= Len(l.xids)
    THEN [ledger |-> l, outcome |-> "script_exception"]
    ELSE [ledger |-> [l EXCEPT !.xids = RemoveAt(@, IndexOf(@, x))], outcome |-> "updated"]

\* ElasticsearchRemoveAbortedTransactions: no request for an empty list,
\* otherwise zdb_aborted_xids.removeAll(params.XIDS), without an upsert
RemoveAbortedOrThrow(l, xs) ==
    IF xs = <<>> THEN [ledger |-> l, outcome |-> "no_request"]
    ELSE IF ~l.here THEN [ledger |-> l, outcome |-> "document_missing"]
    ELSE IF ~(SeqElems(xs) \subseteq SeqElems(l.xids))
    THEN [ledger |-> l, outcome |-> "script_exception"]
    ELSE [ledger |-> [l EXCEPT !.xids = SelectSeq(@, LAMBDA e : e \notin SeqElems(xs))],
          outcome |-> "updated"]

RemoveAbortedTransactions(l, xs) ==
    IF xs = <<>> THEN [ledger |-> l, outcome |-> "no_request"]
    ELSE IF ~l.here THEN [ledger |-> l, outcome |-> "document_missing"]
    ELSE [ledger |-> [l EXCEPT !.xids = SelectSeq(@, LAMBDA e : e \notin SeqElems(xs))],
          outcome |-> "updated"]

LedgerApply(op, arg, r) ==
    /\ Len(lapplied) < MaxLedgerOps
    /\ ledger' = r.ledger
    /\ lapplied' = Append(lapplied, [op |-> op, arg |-> arg, before |-> ledger,
                                     after |-> r.ledger, outcome |-> r.outcome])
    /\ UNCHANGED ledger0

LedgerMarkInProgress ==
    \E x \in Xids : LedgerApply("markInProgress", <<x>>, MarkTransactionInProgress(ledger, x))

LedgerMarkCommitted ==
    \E x \in Xids : LedgerApply("markCommitted", <<x>>, MarkTransactionCommitted(ledger, x))

LedgerCommitCurrentTransaction ==
    \E x \in Xids : LedgerApply("commitCurrent", <<x>>, MarkTransactionCommitted(ledger, x))

LedgerRemoveAborted ==
    \E xs \in XidLists : LedgerApply("removeAborted", xs, RemoveAbortedTransactions(ledger, xs))

LedgerNext ==
    \/ LedgerMarkInProgress
    \/ LedgerMarkCommitted
    \/ LedgerCommitCurrentTransaction
    \/ LedgerRemoveAborted

LedgerInit ==
    /\ ledger \in Ledgers
    /\ ledger0 = ledger
    /\ lapplied = <<>>

LedgerIdle ==
    /\ ledger = LedgerMissing
    /\ ledger0 = LedgerMissing
    /\ lapplied = <<>>

\* ------------------------------------------------------------------ the search request
\* The sort and the page size ElasticsearchOpenScroll puts into the search
\* request, from its arguments.
\* no search request built yet
NoRequest == [track_scores |-> FALSE, sort |-> [field |-> NULL, order |-> NULL], size |-> 0]

SortByDirs == {"SORTBY_DEFAULT", "SORTBY_ASC", "SORTBY_DESC", "SORTBY_USING"}

\* the caller's sort field: none, or the name of a field
SortFields == {NULL, "field"}

OpenArgs ==
    [sortField : SortFields, needSort : BOOLEAN, needScore : BOOLEAN,
     limit : 0..MaxLimit, direction : SortByDirs]

\* sortField = needScore ? "_score" : "zdb_ctid"
DefaultSortFieldSwapped(needScore) == IF needScore THEN "zdb_ctid" ELSE "_score"

DefaultSortField(needScore) == IF needScore THEN "_score" ELSE "zdb_ctid"

\* direction == SORTBY_DEFAULT || direction == SORTBY_ASC ? "asc" : "desc"
SortOrder(direction) ==
    IF direction \in {"SORTBY_DEFAULT", "SORTBY_ASC"} THEN "asc" ELSE "desc"

\* the body of the search request: with needSort "sort":[{field: order}],
\* without it "sort":[field], which leaves the order to the server
OpenRequest(a) ==
    LET needScore == a.needScore \/ a.limit > 0
        needSort  == a.sortField # NULL \/ a.needSort
        sortField == IF a.sortField # NULL THEN a.sortField
                     ELSE IF a.needSort THEN DefaultSortField(needScore)
                     ELSE NULL
        direction == IF a.sortField = NULL /\ a.needSort /\ a.direction = "SORTBY_DEFAULT"
                     THEN (IF needScore THEN "SORTBY_DESC" ELSE "SORTBY_ASC")
                     ELSE a.direction
    IN  [track_scores |-> needScore,
         sort |-> IF needSort
                  THEN [field |-> sortField, order |-> SortOrder(direction)]
                  ELSE [field |-> IF needScore THEN "_score" ELSE "_doc", order |-> NULL],
         size |-> PageSize(a.limit)]

\* ElasticsearchOpenScroll up to its rest_call
OpenScrollRequest ==
    /\ orequest = NoRequest
    /\ orequest' = OpenRequest(oargs)
    /\ UNCHANGED oargs

OpenNext == OpenScrollRequest

OpenInit ==
    /\ oargs \in OpenArgs
    /\ orequest = NoRequest

OpenIdle ==
    /\ oargs = [sortField |-> NULL, needSort |-> FALSE, needScore |-> FALSE,
                limit |-> 0, direction |-> "SORTBY_DEFAULT"]
    /\ orequest = NoRequest

\* ------------------------------------------------------------------ scoring registry
\* heap relation ids
HeapOids == {1, 2}

\* a score_lookup_callback is known by the score it returns for the tuple
\* looked up
Callbacks == {1, 2}

\* the void *callback_data registered with a callback
CallbackData == {"a", "b"}

\* callback(ctid, arg)
CallbackScore(callback, arg) == callback

\* positions of the entries for heapOid, in list order
EntriesOf(entries, heapOid) == {i \in 1..Len(entries) : entries[i].heapOid = heapOid}

\* a registration that never looks for an existing entry
scoring_register_new_entry(entries, heapOid, callback, callback_data) ==
    Append(entries, [heapOid |-> heapOid, callbacks |-> <<callback>>,
                     callback_data |-> <<callback_data>>])

\* scoring_register_callback: the first entry with this heapOid gets the pair
\* appended, or a new entry is appended to scoreEntries
scoring_register_callback(entries, heapOid, callback, callback_data) ==
    IF EntriesOf(entries, heapOid) # {}
    THEN LET i == MinOf(EntriesOf(entries, heapOid))
         IN  [entries EXCEPT ![i] = [@ EXCEPT !.callbacks = Append(@, callback),
                                              !.callback_data = Append(@, callback_data)]]
    ELSE Append(entries, [heapOid |-> heapOid, callbacks |-> <<callback>>,
                          callback_data |-> <<callback_data>>])

\* forboth(lc2, entry->callbacks, lc3, entry->callback_data): score += callback(ctid, arg),
\* as long as both lists have a cell
RECURSIVE EntryScore(_, _)
EntryScore(callbacks, callback_data) ==
    IF callbacks = <<>> \/ callback_data = <<>> THEN 0
    ELSE CallbackScore(Head(callbacks), Head(callback_data))
             + EntryScore(Tail(callbacks), Tail(callback_data))

\* scoring_lookup_score: every entry with this heapOid adds to the score
RECURSIVE scoring_lookup_score(_, _)
scoring_lookup_score(entries, heapOid) ==
    IF entries = <<>> THEN 0
    ELSE (IF Head(entries).heapOid = heapOid
          THEN EntryScore(Head(entries).callbacks, Head(entries).callback_data)
          ELSE 0) + scoring_lookup_score(Tail(entries), heapOid)

ScoringRegister ==
    /\ nregister < MaxRegister
    /\ \E heapOid \in HeapOids, callback \in Callbacks, callback_data \in CallbackData :
        /\ scoreEntries' = scoring_register_callback(scoreEntries, heapOid, callback,
                                                      callback_data)
        /\ sregs' = Append(sregs, [heapOid |-> heapOid, callback |-> callback,
                                    callback_data |-> callback_data])
    /\ nregister' = nregister + 1
    /\ UNCHANGED sscore

\* scoring_support_cleanup: scoreEntries = NULL
ScoringCleanup ==
    /\ scoreEntries' = <<>>
    /\ sregs' = <<>>
    /\ UNCHANGED <<sscore, nregister>>

\* a call of scoring_lookup_score (from zdb_score)
ScoringLookup ==
    /\ \E heapOid \in HeapOids :
        sscore' = [heapOid |-> heapOid, score |-> scoring_lookup_score(scoreEntries, heapOid)]
    /\ UNCHANGED <<scoreEntries, sregs, nregister>>

ScoringNext ==
    \/ ScoringRegister
    \/ ScoringCleanup
    \/ ScoringLookup

\* static List *scoreEntries = NULL
ScoringIdle ==
    /\ scoreEntries = <<>>
    /\ sregs = <<>>
    /\ sscore = [heapOid |-> 0, score |-> 0]
    /\ nregister = 0

\* ------------------------------------------------------------------ delete statistic
\* context->ndelete++ of ElasticsearchBulkDeleteRowByXmin and
\* ElasticsearchBulkDeleteRowByXmax, reached when bulk_prologue returned
CountDelete == ndelete' = IF phase' = "fatal" THEN ndelete ELSE ndelete + 1

\* the bulk session with the deletes counted
StatNext ==
    \/ ElasticsearchBulkInsertRow /\ UNCHANGED ndelete
    \/ ElasticsearchBulkUpdateTuple /\ UNCHANGED ndelete
    \/ ElasticsearchBulkVacuumXmax /\ UNCHANGED ndelete
    \/ ElasticsearchBulkDeleteRowByXmin /\ CountDelete
    \/ ElasticsearchBulkDeleteRowByXmax /\ CountDelete
    \/ ElasticsearchBulkMarkTransactionInProgress /\ UNCHANGED ndelete
    \/ ElasticsearchBulkMarkTransactionCommitted /\ UNCHANGED ndelete
    \/ FinishFlush /\ UNCHANGED ndelete
    \/ FinishWait /\ UNCHANGED ndelete
    \/ FinishInterrupt /\ UNCHANGED ndelete
    \/ FinishComplete /\ UNCHANGED ndelete
    \/ TransportFailure /\ UNCHANGED ndelete

\* palloc0 of the context in ElasticsearchStartBulkProcess
StatIdle == ndelete = 0

Init == BulkInit /\ StoreIdle /\ ScrollIdle /\ LedgerIdle /\ OpenIdle /\ StatIdle /\ ScoringIdle

BulkNext ==
    \/ ElasticsearchBulkInsertRow
    \/ ElasticsearchBulkUpdateTuple
    \/ ElasticsearchBulkVacuumXmax
    \/ ElasticsearchBulkDeleteRowByXmin
    \/ ElasticsearchBulkDeleteRowByXmax
    \/ ElasticsearchBulkMarkTransactionInProgress
    \/ ElasticsearchBulkMarkTransactionCommitted
    \/ FinishFlush
    \/ FinishWait
    \/ FinishInterrupt
    \/ FinishComplete
    \/ TransportFailure

Next == BulkNext /\ UNCHANGED <<storeVars, scrollVars, ledgerVars, openVars, statVars, scoringVars>>

Spec == Init /\ [][Next]_vars

StoreSpecInit == BulkIdle /\ StoreInit /\ ScrollIdle /\ LedgerIdle /\ OpenIdle /\ StatIdle /\ ScoringIdle

StoreSpecNext == StoreNext /\ UNCHANGED <<bulkVars, scrollVars, ledgerVars, openVars, statVars, scoringVars>>

SpecStore == StoreSpecInit /\ [][StoreSpecNext]_vars

ScrollSpecInit == BulkIdle /\ StoreIdle /\ ScrollInit /\ LedgerIdle /\ OpenIdle /\ StatIdle /\ ScoringIdle

ScrollSpecNext == ScrollNext /\ UNCHANGED <<bulkVars, storeVars, ledgerVars, openVars, statVars, scoringVars>>

SpecScroll == ScrollSpecInit /\ [][ScrollSpecNext]_vars

LedgerSpecInit == BulkIdle /\ StoreIdle /\ ScrollIdle /\ LedgerInit /\ OpenIdle /\ StatIdle /\ ScoringIdle

LedgerSpecNext == LedgerNext /\ UNCHANGED <<bulkVars, storeVars, scrollVars, openVars, statVars, scoringVars>>

\* the bulk session with what the drain of ElasticsearchFinishBulkProcess relies
\* on: every request in flight completes, and the caller's loop goes on
SpecDrain ==
    /\ Init
    /\ [][Next]_vars
    /\ WF_vars(FinishWait /\ UNCHANGED <<storeVars, scrollVars, ledgerVars, openVars, statVars, scoringVars>>)
    /\ WF_vars(FinishComplete /\ UNCHANGED <<storeVars, scrollVars, ledgerVars, openVars, statVars, scoringVars>>)

ScrollCloseSpecNext == ScrollCloseNext /\ UNCHANGED <<bulkVars, storeVars, ledgerVars, openVars, statVars, scoringVars>>

SpecScrollClose == ScrollSpecInit /\ [][ScrollCloseSpecNext]_vars

ScrollShortSpecInit == BulkIdle /\ StoreIdle /\ ScrollShortInit /\ LedgerIdle /\ OpenIdle /\ StatIdle /\ ScoringIdle

ScrollShortSpecNext == ScrollShortNext /\ UNCHANGED <<bulkVars, storeVars, ledgerVars, openVars, statVars, scoringVars>>

SpecScrollShort == ScrollShortSpecInit /\ [][ScrollShortSpecNext]_vars

OpenSpecInit ==
    BulkIdle /\ StoreIdle /\ ScrollIdle /\ LedgerIdle /\ OpenInit /\ StatIdle /\ ScoringIdle

OpenSpecNext ==
    OpenNext /\ UNCHANGED <<bulkVars, storeVars, scrollVars, ledgerVars, statVars, scoringVars>>

SpecOpen == OpenSpecInit /\ [][OpenSpecNext]_vars

\* sessions of either concurrency
DeleteSpecInit ==
    /\ \E c \in Concurrencies : StartBulk(c, 2, FALSE)
    /\ StoreIdle /\ ScrollIdle /\ LedgerIdle /\ OpenIdle /\ StatIdle /\ ScoringIdle

DeleteSpecNext ==
    StatNext /\ UNCHANGED <<storeVars, scrollVars, ledgerVars, openVars, scoringVars>>

SpecDelete == DeleteSpecInit /\ [][DeleteSpecNext]_vars

ScoringSpecNext ==
    ScoringNext /\ UNCHANGED <<bulkVars, storeVars, scrollVars, ledgerVars, openVars, statVars>>

ScoringSpecInit ==
    BulkIdle /\ StoreIdle /\ ScrollIdle /\ LedgerIdle /\ OpenIdle /\ StatIdle /\ ScoringIdle

SpecScoring == ScoringSpecInit /\ [][ScoringSpecNext]_vars

SpecLedger == LedgerSpecInit /\ [][LedgerSpecNext]_vars

\* ================================================================== claims
\* the records of all dispatched requests, in dispatch order
RECURSIVE SentRecs(_)
SentRecs(q) == IF q = <<>> THEN <<>> ELSE Head(q).recs \o SentRecs(Tail(q))

\* the slots whose buffer is owned by the session or by the transport
Owned == rest \cup (IF pool[current] = NULL THEN {current} ELSE {})

PoolExhausted == \A i \in DOMAIN pool : pool[i] = NULL

\* C1: once ElasticsearchFinishBulkProcess has run, the rows of the dispatched
\* requests add up to ntotal, and every record appended in the session is in
\* exactly one dispatched request, exactly once.
C1_RowsConserved ==
    phase = "closed" =>
        /\ SumRows(SentRecs(sent)) = ntotal
        /\ SumRows(appended) = ntotal
        /\ Len(SentRecs(sent)) = Len(appended)
        /\ \A k \in 1..Len(appended) :
              Cardinality({j \in 1..Len(SentRecs(sent)) : SentRecs(sent)[j] = appended[k]}) = 1

C1_Witness ==
    /\ phase = "closed"
    /\ Len(sent) >= 2
    /\ ntotal >= 3
    /\ \E i \in 1..Len(sent) : Len(sent[i].recs) >= 2

\* C2: the buffers checked out of the pool (the current one and those in
\* flight) are never more than bulkConcurrency + 1, and in a state in which no
\* pool slot is free checkout_batch_pool ends in the error, leaving the pool as
\* it is; with a free slot it does not.
C2_PoolBounded ==
    /\ Cardinality(Owned) <= bulkConcurrency + 1
    /\ Cardinality({i \in DOMAIN pool : pool[i] = NULL}) <= bulkConcurrency + 1
    /\ phase = "accumulating" => Owned = {i \in DOMAIN pool : pool[i] = NULL}
    /\ LET co == checkout_batch_pool(pool, bulkConcurrency)
       IN  IF PoolExhausted THEN co.error /\ co.pool = pool
           ELSE ~co.error /\ pool[co.pool_idx] # NULL /\ co.pool[co.pool_idx] = NULL

C2_Witness ==
    /\ phase = "accumulating"
    /\ PoolExhausted
    /\ Cardinality(Owned) = bulkConcurrency + 1
    /\ bulkConcurrency = 2

\* C3: with a transport that keeps at most bulkConcurrency requests in flight
\* and returns reclaimed buffers to their slots, no append ends in the fatal
\* 'Unable to checkout from batch pool'.
C3_CheckoutNeverFails == phase # "fatal"

\* a non-terminal flush that found every handle busy, waited, and went on
\* with a fresh buffer
C3_Witness ==
    /\ phase = "accumulating"
    /\ Cardinality(rest) = bulkConcurrency
    /\ Len(sent) > bulkConcurrency
    /\ current \notin rest
    /\ pool[current] = NULL

\* C9: a closed session of k >= 1 appended records, k below the row cap,
\* whose bytes stay below the threshold, has dispatched exactly one request,
\* which holds all k records, and nrequests = 1.
C9_SingleBatch ==
    ( /\ phase = "closed"
      /\ Len(appended) >= 1
      /\ Len(appended) < MAX_DOCS_PER_REQUEST
      /\ SumLen(appended) < batchSize )
    => /\ Len(sent) = 1
       /\ sent[1].recs = appended
       /\ SumRows(sent[1].recs) = ntotal
       /\ nrequests = 1

C9_Witness ==
    /\ phase = "closed"
    /\ Len(appended) = 2
    /\ ntotal = 2
    /\ SumLen(appended) < batchSize
    /\ Len(sent) = 1

\* the session of C10: the buffer is below the threshold after the first
\* append and at or above it after the second
CrossesOnSecond ==
    /\ Len(appended) >= 2
    /\ appended[1].len < batchSize
    /\ appended[1].len + appended[2].len >= batchSize

\* C10 as claimed: such a session has dispatched exactly 2 requests when drain
\* completes.
C10_Original ==
    (phase = "closed" /\ CrossesOnSecond) => Len(sent) = 2

\* C10 amended: the second append does not dispatch the buffer it fills.  When
\* drain follows it directly the session has dispatched exactly 1 request; when
\* exactly one more append that runs bulk_prologue precedes drain it has
\* dispatched exactly 2, the first holding the first two records.
C10_Amended ==
    (phase = "closed" /\ CrossesOnSecond) =>
        /\ Len(appended) = 2 => (Len(sent) = 1 /\ nrequests = 1)
        /\ (Len(appended) = 3 /\ appended[3].row) =>
              /\ Len(sent) = 2
              /\ nrequests = 2
              /\ sent[1].recs = <<appended[1], appended[2]>>
              /\ sent[2].recs = <<appended[3]>>

C10_Witness ==
    /\ phase = "closed"
    /\ CrossesOnSecond
    /\ Len(appended) = 3
    /\ appended[3].row
    /\ Len(sent) = 2

\* the field of the stored document that a conditional script compares
GuardedField(d, m) == IF m.op = "delete_xmin" THEN d.xmin ELSE d.xmax

\* C4: a vacuum-xmax, delete-by-xmin or delete-by-xmax applied to a stored
\* document whose zdb_xmax (resp. zdb_xmin) is not the expected value leaves the
\* document as it was, with outcome 'none'; with the expected value stored the
\* document is deleted (resp. its zdb_xmax is cleared and nothing else).
C4_ConditionalNoop ==
    /\ \A k \in 1..Len(applied) :
          LET a == applied[k]
          IN  (a.mut.op \in ConditionalOps /\ a.before.here) =>
                IF GuardedField(a.before, a.mut) # a.mut.expected
                THEN a.after = a.before /\ a.outcome = "none"
                ELSE IF a.mut.op = "vacuum_xmax"
                THEN /\ a.after = [a.before EXCEPT !.xmax = InvalidTransactionId]
                     /\ a.outcome = "update"
                ELSE a.after = Missing /\ a.outcome = "delete"
    /\ Len(applied) > 0 => doc = applied[Len(applied)].after

\* a mismatching delete left the document alone and a matching vacuum cleared it
C4_Witness ==
    /\ Len(applied) = 2
    /\ applied[1].mut.op = "delete_xmax"
    /\ applied[1].before.here
    /\ applied[1].before.xmax # InvalidTransactionId
    /\ applied[1].before.xmax # applied[1].mut.expected
    /\ applied[1].outcome = "none"
    /\ applied[2].mut.op = "vacuum_xmax"
    /\ applied[2].outcome = "update"
    /\ doc.here /\ doc.xmax = InvalidTransactionId

\* the race of C5: del is a conditional delete computed for the stored version
\* doc0, idx re-creates the document with a newer creating transaction id, and
\* the two travel in different requests
StaleDeleteRace(del, idx) ==
    /\ doc0.here
    /\ reqs0 = {del, idx}
    /\ idx.op = "index"
    /\ idx.xmin > doc0.xmin
    /\ \/ del.op = "delete_xmin" /\ del.expected = doc0.xmin
       \/ /\ del.op = "delete_xmax"
          /\ doc0.xmax # InvalidTransactionId
          /\ del.expected = doc0.xmax

NewerDocument(idx) == [here |-> TRUE, xmin |-> idx.xmin, xmax |-> idx.xmax]

\* C5 as claimed: whichever request the store applies first, it ends with the
\* newer document.
C5_Original ==
    \A del \in reqs0, idx \in reqs0 :
        (StaleDeleteRace(del, idx) /\ reqs = {}) => doc = NewerDocument(idx)

\* C5 amended: the same, provided that for a delete by deleting transaction id
\* the newer document is not indexed with a zdb_xmax equal to the expected value
\* of the delete (it carries none, or another one).
C5_Amended ==
    \A del \in reqs0, idx \in reqs0 :
        ( /\ StaleDeleteRace(del, idx)
          /\ del.op = "delete_xmax" => idx.xmax # del.expected
          /\ reqs = {} )
        => doc = NewerDocument(idx)

\* the index mutation was applied first and the stale delete by deleting
\* transaction id was then a no-op
C5_Witness ==
    /\ reqs = {}
    /\ Len(applied) = 2
    /\ StaleDeleteRace(applied[2].mut, applied[1].mut)
    /\ applied[2].mut.op = "delete_xmax"
    /\ applied[1].mut.xmax # InvalidTransactionId
    /\ applied[2].outcome = "none"
    /\ doc = NewerDocument(applied[1].mut)

\* ceil(t / p)
CeilDiv(t, p) == (t + p - 1) \div p

\* C6: the calls that succeed return the hits 1, 2, ... in the server's order,
\* each once; the first total calls all succeed and call total + 1 ends in the
\* 'read past total' error.
C6_EachHitOnce ==
    /\ returned = Range(1, cnt)
    /\ cnt <= total
    /\ serror = "none" => calls = cnt
    /\ serror # "none" => (serror = "past_total" /\ cnt = total /\ calls = total + 1)

C6_Witness ==
    /\ serror = "past_total"
    /\ total = MaxTotal
    /\ Len(fetchAt) >= 2
    /\ returned = Range(1, total)

\* C7: a call made with cnt = total ends in the 'read past total' error, sends
\* no continuation request and leaves cnt, currpos, the page and the token as
\* they were; cnt <= total in every state.
C7_PastTotalIsFatal ==
    /\ [](cnt <= total)
    /\ [][(cnt = total /\ calls' # calls) =>
            /\ serror' = "past_total"
            /\ UNCHANGED <<cnt, currpos, hits, nhits, scrollId, srvNext, srvToken,
                           fetchAt, returned, total>>]_vars

C7_Witness ==
    /\ serror = "past_total"
    /\ total = 0
    /\ calls = 1
    /\ fetchAt = <<>>

\* C8: a continuation fetch is made only by a call that finds currpos = nhits
\* and cnt < total; the i-th fetch is made when i full pages have been consumed;
\* once all total > 0 hits are consumed there have been ceil(total / size) - 1
\* fetches, and none follows.
C8_FetchCount ==
    /\ [](\A i \in 1..Len(fetchAt) : fetchAt[i] = i * srvSize /\ fetchAt[i] < total)
    /\ []((cnt = total /\ total > 0) => Len(fetchAt) = CeilDiv(total, srvSize) - 1)
    /\ [][fetchAt' # fetchAt => (currpos = nhits /\ cnt < total /\ Len(fetchAt') = Len(fetchAt) + 1)]_vars

\* the scenario of the spec scaled: 7 hits in pages of 3, fetches after hit 3
\* and hit 6
C8_Witness ==
    /\ total = 7
    /\ srvSize = 3
    /\ cnt = total
    /\ fetchAt = <<3, 6>>
    /\ serror = "past_total"

\* the number of times x is in the list q
Count(q, x) == Cardinality({i \in 1..Len(q) : q[i] = x})

IsMarkCommitted(a) == a.op \in {"markCommitted", "commitCurrent"}

\* C11: markInProgress(X) and then markCommitted(X) (the bulk or the
\* synchronous script), applied to any ledger, leave a ledger that does not
\* contain X.
C11_Original ==
    \A k \in 1..(Len(lapplied) - 1) :
        ( /\ lapplied[k].op = "markInProgress"
          /\ IsMarkCommitted(lapplied[k + 1])
          /\ lapplied[k + 1].arg = lapplied[k].arg )
        => lapplied[k].arg[1] \notin SeqElems(lapplied[k + 1].after.xids)

C13_Original ==
    /\ \A k \in 1..Len(lapplied) :
          ( /\ IsMarkCommitted(lapplied[k])
            /\ lapplied[k].before.here
            /\ lapplied[k].arg[1] \notin SeqElems(lapplied[k].before.xids) )
          => (lapplied[k].outcome = "updated" /\ lapplied[k].after = lapplied[k].before)
    /\ \A k \in 1..(Len(lapplied) - 1) :
          ( /\ IsMarkCommitted(lapplied[k])
            /\ IsMarkCommitted(lapplied[k + 1])
            /\ lapplied[k + 1].arg = lapplied[k].arg )
          => /\ lapplied[k + 1].after = lapplied[k].after
             /\ lapplied[k + 1].outcome = lapplied[k].outcome

\* C14: a second markInProgress(X) right after a first leaves the ledger as the
\* first left it, and when X was not in the ledger before, it is in it exactly
\* once afterwards.
C14_Original ==
    \A k \in 1..(Len(lapplied) - 1) :
        ( /\ lapplied[k].op = "markInProgress"
          /\ lapplied[k + 1].op = "markInProgress"
          /\ lapplied[k + 1].arg = lapplied[k].arg )
        => /\ lapplied[k + 1].after = lapplied[k].after
           /\ lapplied[k].arg[1] \notin SeqElems(lapplied[k].before.xids)
                 => Count(lapplied[k + 1].after.xids, lapplied[k].arg[1]) = 1

\* the largest single mutation record
MaxRecLen == CHOOSE n \in RecLens : \A m \in RecLens : m <= n

\* C15: in a closed session the number of dispatched requests times the
\* theoretical maximum batch size (the byte threshold plus the largest record)
\* is at least the bytes appended, and no dispatched request is larger than
\* that maximum.
C15_Original ==
    phase = "closed" =>
        /\ Len(sent) * (batchSize + MaxRecLen) >= SumLen(appended)
        /\ \A i \in 1..Len(sent) : SumLen(sent[i].recs) <= batchSize + MaxRecLen

\* what keeps the drain of C16 from returning: an interrupt, or a request
\* that fails
DrainDisturbed == phase \in {"cancelled", "failed"}

\* C16: when no interrupt is raised and no request fails, a drain that has
\* begun ends, ElasticsearchFinishBulkProcess returns, and whenever it has
\* returned no request of the session is in flight.
C16_DrainReturns ==
    /\ [](phase = "closed" => rest = {})
    /\ ([]~DrainDisturbed) => ((phase = "draining") ~> (phase = "closed" /\ rest = {}))

\* drain waiting with every handle busy
C16_Witness ==
    /\ phase = "draining"
    /\ Cardinality(rest) = bulkConcurrency
    /\ bulkConcurrency = 2
    /\ Len(sent) >= 3

\* C17: when the interrupt's error leaves ElasticsearchFinishBulkProcess no
\* request of the session is in flight.
C17_Original == phase = "cancelled" => rest = {}

\* C18: a request that fails is not sent again and ends the session: the
\* step in which the failure is found dispatches nothing, nothing of the
\* session changes afterwards, and every dispatch hands over one buffer that
\* is not in flight, none of whose records was in an earlier request.
C18_NoRetry ==
    /\ [][phase' = "failed" => (sent' = sent /\ nrequests' = nrequests /\ rest' = rest)]_vars
    /\ [][phase = "failed" => UNCHANGED bulkVars]_vars
    /\ [][sent' # sent =>
            /\ Len(sent') = Len(sent) + 1
            /\ SubSeq(sent', 1, Len(sent)) = sent
            /\ current \notin rest
            /\ current \in rest'
            /\ sent'[Len(sent')].recs = buff[current]
            /\ \A k \in 1..Len(buff[current]) :
                  \A j \in 1..Len(SentRecs(sent)) : SentRecs(sent)[j] # buff[current][k]]_vars

\* a request failed with two requests dispatched and one still in flight
C18_Witness ==
    /\ phase = "failed"
    /\ Len(sent) >= 2
    /\ rest # {}
    /\ Len(appended) >= 3

\* C20: an append dispatches the current buffer exactly when the flush
\* predicate holds of the buffer as it stands before the record is added.
C20_Original ==
    [][Len(appended') = Len(appended) + 1 =>
          ((Len(sent') = Len(sent) + 1) <=> ShouldFlush(SumLen(buff[current]), nrows, FALSE))]_vars

\* C19: a call of next on a closed cursor returns no row, issues no
\* continuation fetch and ends in an error.
C19_Original ==
    [][(sclosed /\ calls' # calls) =>
          (returned' = returned /\ fetchAt' = fetchAt /\ serror' # "none")]_vars

\* C21: no dispatched request holds more than MAX_DOCS_PER_REQUEST mutation
\* actions, whatever operations appended them, and nrows never exceeds
\* MAX_DOCS_PER_REQUEST.
C21_Original ==
    /\ nrows <= MAX_DOCS_PER_REQUEST
    /\ \A i \in 1..Len(sent) : Len(sent[i].recs) <= MAX_DOCS_PER_REQUEST

\* the half of C21 about the counter alone
NrowsCapped == nrows <= MAX_DOCS_PER_REQUEST

\* C22: a request carries the refresh directive only when the refresh
\* interval is disabled, the request is the terminal flush and it is the first
\* request of the session; it is then the only request of the session.  A
\* terminal first request of such a session does carry it.
C22_RefreshDirective ==
    \A i \in 1..Len(sent) :
        /\ sent[i].refresh => (shouldRefresh /\ sent[i].final /\ i = 1 /\ Len(sent) = 1)
        /\ (shouldRefresh /\ sent[i].final /\ i = 1) => sent[i].refresh

\* a closed single-request session on an index whose refresh interval is disabled
C22_Witness ==
    /\ phase = "closed"
    /\ shouldRefresh
    /\ Len(sent) = 1
    /\ sent[1].refresh
    /\ Len(appended) >= 2

\* C23: a completed drain has issued one explicit refresh when the refresh
\* interval is disabled and more than one request was dispatched, and none
\* otherwise; no refresh is issued before drain completes, and the step that
\* issues it starts and ends with no request in flight.
C23_ExplicitRefresh ==
    /\ [](phase = "closed" =>
             nrefresh = IF shouldRefresh /\ Len(sent) > 1 THEN 1 ELSE 0)
    /\ [](phase # "closed" => nrefresh = 0)
    /\ [][nrefresh' # nrefresh =>
             (rest = {} /\ rest' = {} /\ phase = "draining" /\ phase' = "closed")]_vars

\* two requests, the second one waited for, then the explicit refresh
C23_Witness ==
    /\ phase = "closed"
    /\ nrefresh = 1
    /\ Len(sent) = 2
    /\ sent[2].final

\* C24: a delete-by-xmin or delete-by-xmax append leaves waitForActiveShards
\* true, the flag never goes back to false, and every request is dispatched
\* with the flag as it stands after the step that dispatches it, so that every
\* request dispatched by the delete's own call or later carries
\* wait_for_active_shards=all.
C24_WaitForActiveShards ==
    /\ [][waitForActiveShards'
             \/ ~(ElasticsearchBulkDeleteRowByXmin \/ ElasticsearchBulkDeleteRowByXmax)]_vars
    /\ [][waitForActiveShards => waitForActiveShards']_vars
    /\ [][sent' # sent => sent'[Len(sent')].wait = waitForActiveShards']_vars
    /\ [](\A i \in 1..Len(sent) : sent[i].wait => waitForActiveShards)
    /\ [](\A i \in 1..Len(sent), j \in 1..Len(sent) :
             (sent[i].wait /\ i <= j) => sent[j].wait)

\* a session whose first request went out before the delete and whose later
\* requests carry the flag
C24_Witness ==
    /\ phase = "closed"
    /\ Len(sent) >= 3
    /\ ~sent[1].wait
    /\ sent[2].wait
    /\ sent[3].wait

\* the records q are a run of consecutive appends, in append order
InAppendOrder(q) ==
    \A k \in 1..Len(q) :
        /\ q[k] = appended[q[k].id]
        /\ k > 1 => q[k].id = q[k - 1].id + 1

\* C25: every dispatched request and every buffer holds its records in the
\* order in which they were appended, and an append step leaves the records
\* already in the current buffer as they are and adds the new record after
\* the last of them.
C25_AppendOrder ==
    /\ [](\A i \in 1..Len(sent) : InAppendOrder(sent[i].recs))
    /\ [](\A i \in DOMAIN buff : InAppendOrder(buff[i]))
    /\ [][Len(appended') = Len(appended) + 1 =>
             /\ SubSeq(appended', 1, Len(appended)) = appended
             /\ Len(buff'[current']) >= 1
             /\ buff'[current'][Len(buff'[current'])] = appended'[Len(appended')]
             /\ current' = current =>
                   SubSeq(buff'[current], 1, Len(buff[current])) = buff[current]
             /\ current' # current => Len(buff'[current']) = 1]_vars

\* a request of three records
C25_Witness ==
    /\ phase = "closed"
    /\ \E i \in 1..Len(sent) :
          /\ Len(sent[i].recs) = 3
          /\ sent[i].recs[1].id + 2 = sent[i].recs[3].id

\* C26: in every state of a cursor, whatever pages the server answers with
\* (full, short or empty), currpos is at most the length of the current page,
\* nhits is that length, and cnt is at most total.
C26_PositionInPage ==
    /\ currpos <= Len(hits.elems)
    /\ nhits = Len(hits.elems)
    /\ hits.null => Len(hits.elems) = 0
    /\ cnt <= total

\* a short page, consumed, and then an empty page with hits remaining
C26_Witness ==
    /\ serror = "no_results"
    /\ Len(fetchAt) >= 2
    /\ fetchAt[2] < fetchAt[1] + srvSize
    /\ cnt > 0
    /\ cnt < total
    /\ currpos = 0
    /\ nhits = 0

\* C27: a continuation fetch sends the token of the latest response, the
\* stored token is afterwards the one that fetch returned, and no token is
\* sent twice.
C27_TokenRefreshed ==
    /\ [](scrollId = srvToken)
    /\ [](\A i \in 1..Len(tokens), j \in 1..Len(tokens) : i # j => tokens[i] # tokens[j])
    /\ [][fetchAt' # fetchAt =>
             /\ tokens' = Append(tokens, srvToken)
             /\ srvToken' # srvToken
             /\ scrollId' = srvToken']_vars
    /\ [][fetchAt' = fetchAt => (tokens' = tokens /\ scrollId' = scrollId)]_vars

\* three fetches, each with the token of the response before it
C27_Witness ==
    /\ Len(tokens) = 3
    /\ tokens = <<1, 2, 3>>
    /\ scrollId = 4

\* ranking is wanted: needScore, or a limit
RankingWanted(a) == a.needScore \/ a.limit > 0

\* the order the server sorts in: descending by default for _score, ascending
\* by default for every other field
EffectiveOrder(sort) ==
    IF sort.order # NULL THEN sort.order
    ELSE IF sort.field = "_score" THEN "desc" ELSE "asc"

\* C28 as claimed: the sort sent is the explicit sort field when one is given,
\* otherwise _score descending when ranking is wanted, otherwise zdb_ctid
\* ascending.
C28_Original ==
    orequest # NoRequest =>
        IF oargs.sortField # NULL THEN orequest.sort.field = oargs.sortField
        ELSE IF RankingWanted(oargs)
        THEN orequest.sort.field = "_score" /\ EffectiveOrder(orequest.sort) = "desc"
        ELSE orequest.sort.field = "zdb_ctid" /\ EffectiveOrder(orequest.sort) = "asc"

\* C28 amended: the explicit sort field when one is given; otherwise _score
\* when ranking is wanted, descending unless needSort comes with the explicit
\* direction ascending; otherwise, with needSort, zdb_ctid, ascending unless an
\* explicit direction other than ascending is given, and without needSort _doc
\* (the index order).
C28_Amended ==
    orequest # NoRequest =>
        IF oargs.sortField # NULL THEN orequest.sort.field = oargs.sortField
        ELSE IF RankingWanted(oargs)
        THEN /\ orequest.sort.field = "_score"
             /\ EffectiveOrder(orequest.sort) =
                   IF oargs.needSort /\ oargs.direction = "SORTBY_ASC" THEN "asc" ELSE "desc"
        ELSE IF oargs.needSort
        THEN /\ orequest.sort.field = "zdb_ctid"
             /\ EffectiveOrder(orequest.sort) =
                   IF oargs.direction \in {"SORTBY_DEFAULT", "SORTBY_ASC"} THEN "asc" ELSE "desc"
        ELSE /\ orequest.sort.field = "_doc"
             /\ EffectiveOrder(orequest.sort) = "asc"

\* the three defaults in one reachable set of calls: here the default by
\* locator, with needSort and no ranking
C28_Witness ==
    /\ orequest # NoRequest
    /\ oargs.sortField = NULL
    /\ oargs.needSort
    /\ ~RankingWanted(oargs)
    /\ oargs.direction = "SORTBY_DEFAULT"
    /\ orequest.sort = [field |-> "zdb_ctid", order |-> "asc"]

\* C29: the page size sent is min(limit, MAX_DOCS_PER_REQUEST) when a limit is
\* given and MAX_DOCS_PER_REQUEST when the limit is 0, and is never above
\* MAX_DOCS_PER_REQUEST.
C29_Original ==
    orequest # NoRequest =>
        /\ orequest.size = IF oargs.limit = 0 THEN MAX_DOCS_PER_REQUEST
                           ELSE MinNat(oargs.limit, MAX_DOCS_PER_REQUEST)
        /\ orequest.size <= MAX_DOCS_PER_REQUEST
\* the race of C30: the stored zdb_xmax is E, a vacuum-xmax expecting E and an
\* update that writes the newer deleting id N travel in different requests
VacuumUpdateRace(E, N) ==
    /\ doc0.here
    /\ doc0.xmax = E
    /\ N # E
    /\ reqs0 = {[op |-> "vacuum_xmax", expected |-> E], [op |-> "update", xmax |-> N]}

\* C30: for a document whose stored zdb_xmax is E, a vacuum-xmax expecting E and
\* an update that sets zdb_xmax to N # E, applied in either order, end with
\* zdb_xmax = N (and the rest of the document as it was).
C30_VacuumKeepsNewerXmax ==
    \A E \in Xids, N \in Xids :
        (VacuumUpdateRace(E, N) /\ reqs = {}) =>
            doc = [doc0 EXCEPT !.xmax = N]

\* the order in which the vacuum comes second and finds the newer id stored
C30_Witness ==
    /\ \E E \in Xids, N \in Xids : VacuumUpdateRace(E, N) /\ doc.xmax = N
    /\ reqs = {}
    /\ Len(applied) = 2
    /\ applied[1].mut.op = "update"
    /\ applied[1].outcome = "update"
    /\ applied[2].mut.op = "vacuum_xmax"
    /\ applied[2].outcome = "none"
\* the ids of the records of the requests dispatched so far
DispatchedIds ==
    UNION {{sent[i].recs[k].id : k \in 1..Len(sent[i].recs)} : i \in 1..Len(sent)}

\* C31: while the session accumulates, the current buffer is checked out of the
\* pool, is not in flight and holds no record of a dispatched request (the
\* buffer a non-terminal flush switches to is a different, empty one); the
\* current buffer is in flight only after the terminal flush.
C31_CurrentNotInFlight ==
    /\ phase = "accumulating" =>
          /\ current \notin rest
          /\ pool[current] = NULL
          /\ \A k \in 1..Len(buff[current]) : buff[current][k].id \notin DispatchedIds
    /\ current \in rest => phase # "accumulating" /\ Len(sent) > 0 /\ sent[Len(sent)].final

\* a record is appended to the fresh buffer while the flushed one is in flight
C31_Witness ==
    /\ phase = "accumulating"
    /\ rest # {}
    /\ Len(sent) > 0
    /\ buff[current] # <<>>
    /\ \E i \in rest : buff[i] # <<>> /\ i # current
\* the refreshes a session has triggered: the requests dispatched with the
\* refresh directive and the explicit refresh calls
RefreshesTriggered == Cardinality({i \in 1..Len(sent) : sent[i].refresh}) + nrefresh

\* C32: a session on an index whose refresh interval is disabled that has run
\* to the end of drain has triggered exactly one refresh (the directive on its
\* single request or the explicit refresh, not both) when it dispatched a
\* request, and none when it dispatched no request.
C32_OneRefresh ==
    (phase = "closed" /\ shouldRefresh) =>
        RefreshesTriggered = IF Len(sent) > 0 THEN 1 ELSE 0

\* two requests, neither with the directive, and the explicit refresh
C32_Witness ==
    /\ phase = "closed"
    /\ shouldRefresh
    /\ Len(sent) = 2
    /\ ~sent[1].final
    /\ \A i \in 1..Len(sent) : ~sent[i].refresh
    /\ nrefresh = 1
\* the markCommitted calls of the session: their records are the ones that
\* count no row
MarkCommittedCalls == Cardinality({k \in 1..Len(appended) : ~appended[k].row})

\* C33: the step that appends a markCommitted record leaves nrows, ntotal,
\* nrequests, the pool, the current buffer's identity, the requests in flight
\* and the requests dispatched as they are, adds the record after the last one
\* of the current buffer and increments the statistic (nxid) by one; in every
\* state ntotal is the sum of the statistics minus the number of markCommitted
\* calls.
C33_MarkCommittedFrame ==
    /\ [](ntotal = nstat - MarkCommittedCalls)
    /\ [][\/ Len(appended') = Len(appended)
          \/ appended'[Len(appended')].row
          \/ /\ nrows' = nrows /\ ntotal' = ntotal /\ nrequests' = nrequests
             /\ pool' = pool /\ rest' = rest /\ current' = current /\ sent' = sent
             /\ nstat' = nstat + 1
             /\ buff' = [buff EXCEPT ![current] = Append(@, appended'[Len(appended')])]]_vars

\* a markCommitted record went into the current buffer while a request was in
\* flight and the buffer was at the byte threshold
C33_Witness ==
    /\ phase = "accumulating"
    /\ rest # {}
    /\ Len(appended) > 0
    /\ ~appended[Len(appended)].row
    /\ buff[current] # <<>>
    /\ buff[current][Len(buff[current])] = appended[Len(appended)]
    /\ SumLen(buff[current]) >= batchSize
    /\ ntotal < nstat
\* C34: with a byte threshold above 0 no dispatched request has an empty body,
\* whether the flush came from the byte threshold, the row cap or the drain;
\* a session without an appended record has dispatched nothing and has no
\* request to wait for.
C34_NoEmptyRequest ==
    /\ batchSize > 0 => \A i \in 1..Len(sent) : sent[i].recs # <<>>
    /\ appended = <<>> => (sent = <<>> /\ nrequests = 0 /\ rest = {})

\* a flush by the row cap below the byte threshold, then the terminal flush
C34_Witness ==
    /\ phase = "closed"
    /\ batchSize > 0
    /\ Len(sent) = 2
    /\ SumLen(sent[1].recs) < batchSize
    /\ ~sent[1].final
    /\ sent[2].final
\* C35: the records of the dispatched requests, taken in dispatch order, are an
\* initial segment of the session's append sequence (so every record of one
\* request was appended before every record of the next); while the session
\* accumulates, the record appended last is the last one of the current buffer
\* and in no dispatched request, also when its append triggered a flush.
C35_ContiguousSegments ==
    /\ Len(SentRecs(sent)) <= Len(appended)
    /\ SentRecs(sent) = SubSeq(appended, 1, Len(SentRecs(sent)))
    /\ (phase = "accumulating" /\ appended # <<>>) =>
          /\ buff[current] # <<>>
          /\ buff[current][Len(buff[current])] = appended[Len(appended)]
          /\ appended[Len(appended)].id \notin DispatchedIds

\* two requests in flight at once and the record that triggered the second
\* flush alone in the current buffer
C35_Witness ==
    /\ phase = "accumulating"
    /\ Len(sent) = 2
    /\ Cardinality(rest) = 2
    /\ sent[1].recs # <<>>
    /\ sent[2].recs # <<>>
    /\ Len(buff[current]) = 1
    /\ Len(appended) = Len(SentRecs(sent)) + 1
\* C36: the cursor does not stop at the caller's limit: against a server that
\* serves full pages every one of the first total calls of next succeeds and
\* returns the next hit, whatever the limit; the call after a page of limit
\* hits issues a continuation fetch; the cursor stops only with the error of
\* the call that follows the last of the total hits.
C36_LimitNotEnforced ==
    /\ calls <= total => (serror = "none" /\ cnt = calls /\ returned = Range(1, calls))
    /\ serror # "none" => (serror = "past_total" /\ cnt = total /\ calls = total + 1)
    /\ (limit > 0 /\ cnt > limit) => (fetchAt # <<>> /\ fetchAt[1] = limit)

\* a cursor opened with a limit has returned more than twice as many hits
C36_Witness ==
    /\ limit > 0
    /\ total > 2 * limit
    /\ cnt = total
    /\ serror = "none"
    /\ Len(returned) = total
    /\ Len(fetchAt) >= 2
\* C37: waitForActiveShards is false as long as nothing was appended, it
\* changes only in a step that counts a delete (ndelete is incremented by
\* delete-by-xmin and delete-by-xmax alone), and a session that has appended no
\* delete has the flag false and has dispatched no request with
\* wait_for_active_shards.
C37_OnlyDeletesSetFlag ==
    /\ [](appended = <<>> => ~waitForActiveShards)
    /\ [][waitForActiveShards' = waitForActiveShards \/ ndelete' = ndelete + 1]_vars
    /\ [](ndelete = 0 =>
             (~waitForActiveShards /\ \A i \in 1..Len(sent) : ~sent[i].wait))

\* a closed session without a delete, with a markCommitted record, that
\* dispatched two requests
C37_Witness ==
    /\ phase = "closed"
    /\ ndelete = 0
    /\ Len(sent) = 2
    /\ Len(appended) >= 3
    /\ \E k \in 1..Len(appended) : ~appended[k].row
    /\ ~waitForActiveShards
\* the registrations for heapOid since the last cleanup, in call order
RegistrationsOf(heapOid) == SelectSeq(sregs, LAMBDA r : r.heapOid = heapOid)

\* C38: the scoring registry holds at most one entry per heap relation id; an
\* entry's callback list and callback-data list have the same length and hold,
\* pair by pair and in call order, the registrations made for its relation
\* since the last cleanup; a relation has an entry exactly when it has such a
\* registration; with no registration since the last cleanup the registry is
\* empty and the score looked up for any relation is 0.
C38_RegistryShape ==
    /\ \A i \in 1..Len(scoreEntries), j \in 1..Len(scoreEntries) :
          i # j => scoreEntries[i].heapOid # scoreEntries[j].heapOid
    /\ \A i \in 1..Len(scoreEntries) :
          LET e == scoreEntries[i]
              r == RegistrationsOf(e.heapOid)
          IN  /\ Len(e.callbacks) = Len(e.callback_data)
              /\ Len(e.callbacks) = Len(r)
              /\ \A k \in 1..Len(r) :
                    e.callbacks[k] = r[k].callback /\ e.callback_data[k] = r[k].callback_data
    /\ \A heapOid \in HeapOids :
          (EntriesOf(scoreEntries, heapOid) = {}) = (RegistrationsOf(heapOid) = <<>>)
    /\ sregs = <<>> =>
          /\ scoreEntries = <<>>
          /\ \A heapOid \in HeapOids : scoring_lookup_score(scoreEntries, heapOid) = 0

\* after a cleanup a relation was registered twice: one entry with two pairs
C38_Witness ==
    /\ nregister > Len(sregs)
    /\ Len(sregs) = 2
    /\ Len(scoreEntries) = 1
    /\ Len(scoreEntries[1].callbacks) = 2
    /\ Len(scoreEntries[1].callback_data) = 2
    /\ scoring_lookup_score(scoreEntries, scoreEntries[1].heapOid) > 0

====
